---- MODULE Spec2Model ----
(***************************************************************************)
(* Model of code/register/aws_sso_register.py: a command-line script that  *)
(* logs into a web console with a browser, runs `count` create-user        *)
(* iterations and appends "email----password" lines to created_users.txt.  *)
(*                                                                         *)
(* Python values are modelled as follows.  A str is a TLA+ string.  None   *)
(* is the sentinel None.  A dict is a function whose domain is its key     *)
(* set.  The value False returned by create_user_via_browser is PyFalse,   *)
(* the function with the empty domain (falsy, like False).                 *)
(***************************************************************************)
EXTENDS Integers, Sequences, FiniteSets, TLC

VARIABLES
    pc,             \* position of the single thread of control
    count,          \* args.count
    file0,          \* content of created_users.txt before the run
    file,           \* content of created_users.txt
    driver,         \* "none" (driver = None), "open", "quit"
    login,          \* outcome of login_aws_console: "none", "ok", "fail", "raise"
    login_page,     \* what the browser did at the login page, until it leaves the page
    i,              \* loop variable of register_users
    created_users,  \* the list register_users builds
    email,          \* identity of the current iteration
    given_name,
    family_name,
    add_user_btn,   \* local of create_user_via_browser
    flag,           \* otp_clicked / next_clicked / group_selected of the current cascade
    m,              \* next method of the current cascade
    tried,          \* methods of the current cascade attempted so far, with outcome
    clicks,         \* clicks that took effect in the current cascade
    otp_password,   \* local of create_user_via_browser
    popup_data,     \* local of create_user_via_browser
    scraped,        \* what each credential extractor of the current iteration returned, in order
    steps,          \* steps of the current iteration attempted so far, in order
    failed,         \* warnings of the current iteration: steps that did not achieve their click or fill
    result,         \* return value of create_user_via_browser
    calls,          \* number of calls of create_user_via_browser
    io_log,         \* what the file system did at each save_user_to_file call, in order
    exit_code       \* process exit status; NoExit until the process ends

vars == <<pc, count, file0, file, driver, login, login_page, i, created_users, email,
          given_name, family_name, add_user_btn, flag, m, tried, clicks,
          otp_password, popup_data, scraped, steps, failed, result, calls,
          io_log, exit_code>>

----------------------------------------------------------------------------
(* Bounds of the model *)

MaxCount == 2

Counts == -1 .. MaxCount

\* contents the output file may have before the run
InitialFiles == {"", "old0000000@gmail.com----Old1!pass\n"}

\* local parts generate_random_email is sampled at (10 characters each)
SampleLocalParts == {"aaaaaaaaaa", "z9z9z9z9z9"}

\* names generate_random_name is sampled at
SampleNames == {<<"John", "Smith">>}

----------------------------------------------------------------------------
(* Python values *)

None == "<None>"

PyFalse == <<>>

Truthy(v) == v # None /\ v # ""

PyOr(a, b) == IF Truthy(a) THEN a ELSE b

DictGet(d, k) == IF k \in DOMAIN d THEN d[k] ELSE None

DictTruthy(d) == DOMAIN d # {}

NoExit == 0 - 1

----------------------------------------------------------------------------
(* Python and JavaScript string operations *)

\* the character of s at position k (1-based), as a string
CharAt(s, k) == SubSeq(s, k, k)

CharsOf(s) == {CharAt(s, k) : k \in 1 .. Len(s)}

\* `sub in s`, text.includes(sub)
Contains(s, sub) ==
    \E k \in 1 .. (Len(s) - Len(sub) + 1) : SubSeq(s, k, k + Len(sub) - 1) = sub

\* s.find(sub), 1-based; 0 when sub does not occur
Find(s, sub) ==
    IF Contains(s, sub)
    THEN CHOOSE k \in 1 .. (Len(s) - Len(sub) + 1) :
           /\ SubSeq(s, k, k + Len(sub) - 1) = sub
           /\ \A j \in 1 .. (k - 1) : SubSeq(s, j, j + Len(sub) - 1) # sub
    ELSE 0

\* s.startswith(p)
StartsWith(s, p) == Len(p) <= Len(s) /\ SubSeq(s, 1, Len(p)) = p

\* the characters str.strip() removes and the class \s matches, among those
\* the sampled texts use
Whitespace == {" ", "\t", "\n", "\r"}

\* s.strip()
Strip(s) ==
    LET inner == {k \in 1 .. Len(s) : CharAt(s, k) \notin Whitespace}
    IN  IF inner = {}
        THEN ""
        ELSE SubSeq(s, CHOOSE a \in inner : \A k \in inner : a <= k,
                       CHOOSE b \in inner : \A k \in inner : k <= b)

\* s.split(sep, 1)[1]: what follows the first sep (sep occurs in s)
AfterFirst(s, sep) == SubSeq(s, Find(s, sep) + Len(sep), Len(s))

\* s.split(sep)[0]: what precedes the first sep, all of s without one
BeforeFirst(s, sep) ==
    IF Contains(s, sep) THEN SubSeq(s, 1, Find(s, sep) - 1) ELSE s

\* s.replace(old, ''): every occurrence removed, left to right
RECURSIVE Remove(_, _)
Remove(s, old) ==
    IF Contains(s, old)
    THEN SubSeq(s, 1, Find(s, old) - 1)
           \o Remove(SubSeq(s, Find(s, old) + Len(old), Len(s)), old)
    ELSE s

UpperLetters == CharsOf("ABCDEFGHIJKLMNOPQRSTUVWXYZ")

LowerLetters == CharsOf("abcdefghijklmnopqrstuvwxyz")

Digits == CharsOf("0123456789")

\* one character lower-cased
LowerChar(c) ==
    IF c \in UpperLetters
    THEN CharAt("abcdefghijklmnopqrstuvwxyz", Find("ABCDEFGHIJKLMNOPQRSTUVWXYZ", c))
    ELSE c

\* s.lower()
RECURSIVE Lower(_)
Lower(s) ==
    IF s = "" THEN "" ELSE LowerChar(CharAt(s, 1)) \o Lower(SubSeq(s, 2, Len(s)))

----------------------------------------------------------------------------
(* Tool functions *)

\* generate_random_email, for a drawn local part
generate_random_email(local) == local \o "@" \o "gmail.com"

\* UserLine with Email preferred to Username and the password not defaulted
UserLine_EmailFirstNoDefault(user_info) ==
    LET e == PyOr(PyOr(DictGet(user_info, "Email"), DictGet(user_info, "Username")), "")
        p == DictGet(user_info, "One-time_password")
    IN  e \o "----" \o p \o "\n"

\* The line save_user_to_file formats from user_info.
UserLine(user_info) ==
    LET e == PyOr(PyOr(DictGet(user_info, "Username"), DictGet(user_info, "Email")), "")
        p == PyOr(DictGet(user_info, "One-time_password"), "")
    IN  e \o "----" \o p \o "\n"

\* save_user_to_file with the file opened in mode 'w'
save_user_to_file_Truncates(user_info, f, io) ==
    IF io = "ok"
    THEN [file |-> UserLine(user_info), raised |-> FALSE]
    ELSE [file |-> f, raised |-> FALSE]

\* save_user_to_file without the except clause
save_user_to_file_Propagates(user_info, f, io) ==
    IF io = "ok"
    THEN [file |-> f \o UserLine(user_info), raised |-> FALSE]
    ELSE [file |-> f, raised |-> TRUE]

\* save_user_to_file writing the line twice
save_user_to_file_WritesTwice(user_info, f, io) ==
    IF io = "ok"
    THEN [file |-> f \o UserLine(user_info) \o UserLine(user_info), raised |-> FALSE]
    ELSE [file |-> f, raised |-> FALSE]

\* save_user_to_file: the file after the call, and whether an exception left
\* the function.  io is what the file system does: "ok", or "fail" when
\* open() or write() raises; the except clause swallows the exception.
save_user_to_file(user_info, f, io) ==
    IF io = "ok"
    THEN [file |-> f \o UserLine(user_info), raised |-> FALSE]
    ELSE [file |-> f, raised |-> FALSE]

IOOutcomes == {"ok", "fail"}

\* login_aws_console reporting failure when the URL is not a console URL
login_aws_console_ChecksUrl(o) ==
    CASE o = "console"      -> "ok"
      [] o = "other_url"    -> "fail"
      [] o = "raise_in_try" -> "fail"
      [] o = "raise_get"    -> "raise"

\* login_aws_console, by what the browser does: the three steps complete and
\* the URL is a console URL ("console") or is not ("other_url"); locating a
\* field, typing or clicking raises inside the try ("raise_in_try");
\* driver.get raises before the try ("raise_get").
LoginOutcomes == {"console", "other_url", "raise_in_try", "raise_get"}

login_aws_console(o) ==
    CASE o = "console"      -> "ok"
      [] o = "other_url"    -> "ok"
      [] o = "raise_in_try" -> "fail"
      [] o = "raise_get"    -> "raise"

\* AfterLogin with the return value of login_aws_console not tested
AfterLogin_IgnoresFailure(r) == IF r = "raise" THEN "finally" ELSE "loop"

\* register_users after the login call: the loop, or the finally clause
\* (return [] on a reported failure, the except clause on an exception).
AfterLogin(r) == IF r = "ok" THEN "loop" ELSE "finally"

\* the test of the first branch after create_user_via_browser returns
IsSuccessRecord(r) == DictTruthy(r) /\ Truthy(DictGet(r, "success"))

\* {k: v for k, v in result.items() if k != 'success'}
WithoutSuccess(r) == [k \in (DOMAIN r) \ {"success"} |-> r[k]]

\* the record of the elif branch (a bare truthy return value)
LegacyRecord(e, g, f) ==
    [k \in {"Username", "Name", "One-time_password"} |->
        CASE k = "Username" -> e
          [] k = "Name" -> g \o " " \o f
          [] k = "One-time_password" -> None]

\* result_data with a missing credential treated as a failed iteration
result_data_FailsWithoutCredential(e, g, f, otp) ==
    IF ~ Truthy(otp) THEN PyFalse
    ELSE [k \in {"success", "Username", "Name", "First_name", "Last_name", "One-time_password"} |->
            CASE k = "success" -> "True"
              [] k = "Username" -> e
              [] k = "Name" -> g \o " " \o f
              [] k = "First_name" -> g
              [] k = "Last_name" -> f
              [] k = "One-time_password" -> otp]

\* result_data with the display name stored as the username
result_data_UsernameFromName(e, g, f, otp) ==
    [k \in {"success", "Username", "Name", "First_name", "Last_name", "One-time_password"} |->
        CASE k = "success" -> "True"
          [] k = "Username" -> g \o " " \o f
          [] k = "Name" -> g \o " " \o f
          [] k = "First_name" -> g
          [] k = "Last_name" -> f
          [] k = "One-time_password" -> PyOr(otp, "")]

\* result_data of create_user_via_browser
result_data(e, g, f, otp) ==
    [k \in {"success", "Username", "Name", "First_name", "Last_name", "One-time_password"} |->
        CASE k = "success" -> "True"
          [] k = "Username" -> e
          [] k = "Name" -> g \o " " \o f
          [] k = "First_name" -> g
          [] k = "Last_name" -> f
          [] k = "One-time_password" -> PyOr(otp, "")]

\* main's report loop reads user['email'], user['name'] and user.get('otp');
\* a missing key raises KeyError, which nothing catches.
MainRaises(cu) ==
    \E k \in DOMAIN cu : ~ ({"email", "name"} \subseteq DOMAIN cu[k])

\* the status the process ends with: main's return value, or 1 when an
\* uncaught exception ends the interpreter
main(cu) ==
    IF cu # <<>> /\ MainRaises(cu) THEN 1
    ELSE IF cu # <<>> THEN 0 ELSE 1

----------------------------------------------------------------------------
(* create_user_via_browser: the cascades *)

\* number of lookup methods of each cascaded step
AddUserMethods == 3
OtpMethods == 4
NextMethods == 3
GroupMethods == 6

Cascades == {"add_user", "otp", "next1", "group"}

NMethods(step) ==
    CASE step = "add_user" -> AddUserMethods
      [] step = "otp"      -> OtpMethods
      [] step = "next1"    -> NextMethods
      [] step = "group"    -> GroupMethods

\* ShouldTry with the guard left out: every method runs
ShouldTry_Always(done) == TRUE

\* the guard `if not add_user_btn:` / `if not otp_clicked:` ... of methods 2..n
ShouldTry(done) == ~ done

\* what a successful method leaves in add_user_btn: methods 1 and 2 return the
\* element found, method 3 has clicked it in the page script
FoundBy(method) == IF method = AddUserMethods THEN "clicked_by_js" ELSE "element"

\* NotFound with the test left out: the click is attempted on None
NotFound_Never(btn) == FALSE

\* the test `if not add_user_btn:` after the three lookup methods
NotFound(btn) == ~ Truthy(btn)

\* the test `if add_user_btn != "clicked_by_js":` before the Selenium click
NeedsClick(btn) == btn # "clicked_by_js"

\* credentials the page is sampled to show to each extractor
LabelCreds == {"Lbl1!abcd"}
ScanCreds == {"Scan2?abc"}

\* what pbpaste is sampled to print after the click on 'Copy': the credential
\* with its trailing newline, two lines of text, nothing
ClipboardTexts == {"Clip3abcd\n", "Pw1\nabcd9\n", ""}

\* the clipboard text the second phase accepts as the credential: the
\* stripped output of pbpaste when it is 8..60 long, has no '@' and no space,
\* names neither portal, and has a letter and a digit; None otherwise
clipboard_password(stdout) ==
    LET clipboard_content == Strip(stdout)
    IN  IF /\ Truthy(clipboard_content)
           /\ Len(clipboard_content) >= 8 /\ Len(clipboard_content) <= 60
           /\ ~ Contains(clipboard_content, "@")
           /\ ~ Contains(clipboard_content, " ")
           /\ ~ Contains(clipboard_content, "awsapps.com")
           /\ ~ Contains(clipboard_content, "portal.us-east")
           /\ CharsOf(clipboard_content) \cap (UpperLetters \cup LowerLetters) # {}
           /\ CharsOf(clipboard_content) \cap Digits # {}
        THEN clipboard_content
        ELSE None

ClipCreds == {clipboard_password(t) : t \in ClipboardTexts} \ {None}

----------------------------------------------------------------------------
(* The state machine *)

Init ==
    /\ pc = "imports"
    /\ count \in Counts
    /\ file0 \in InitialFiles
    /\ file = file0
    /\ driver = "none"
    /\ login = "none"
    /\ login_page = "none"
    /\ i = 0
    /\ created_users = <<>>
    /\ email = ""
    /\ given_name = ""
    /\ family_name = ""
    /\ add_user_btn = None
    /\ flag = FALSE
    /\ m = 0
    /\ tried = <<>>
    /\ clicks = 0
    /\ otp_password = None
    /\ popup_data = <<>>
    /\ scraped = <<>>
    /\ steps = <<>>
    /\ failed = {}
    /\ result = PyFalse
    /\ calls = 0
    /\ io_log = <<>>
    /\ exit_code = NoExit

run_vars == <<count, file0, file, driver, login, login_page, i, created_users, calls,
              io_log, exit_code>>

id_vars == <<email, given_name, family_name>>

casc_vars == <<add_user_btn, flag, m, tried, clicks>>

\* the steps between the 'Add user' click and the second Next
WizardSteps == {"otp", "form", "next1", "group"}

\* what `failed` keeps of a step that logged a warning: that a wizard step
\* did, or that the final confirmation did
Logged(step) == IF step \in WizardSteps THEN "wizard" ELSE step

\* enter a step of the iteration
Goto(step) ==
    /\ pc' = step
    /\ steps' = Append(steps, step)

\* create_user_via_browser has returned and its result is handled: the locals
\* and the identity of the iteration are gone
DropLocals ==
    /\ add_user_btn' = None
    /\ flag' = FALSE
    /\ m' = 0
    /\ tried' = <<>>
    /\ clicks' = 0
    /\ otp_password' = None
    /\ popup_data' = <<>>
    /\ scraped' = <<>>
    /\ email' = ""
    /\ given_name' = ""
    /\ family_name' = ""
    /\ steps' = <<>>
    /\ failed' = {}
    /\ result' = PyFalse

\* the except clause of create_user_via_browser: return False
Abort ==
    /\ result' = PyFalse
    /\ pc' = "handle"
    /\ UNCHANGED steps

\* register_users, the import block: ImportError returns [] at once
Imports ==
    /\ pc = "imports"
    /\ \E ok \in BOOLEAN : pc' = IF ok THEN "launch" ELSE "main"
    /\ UNCHANGED <<run_vars, id_vars, casc_vars, otp_password, popup_data, scraped, steps, failed, result>>

\* AfterLaunch with the login attempted whatever uc.Chrome did
AfterLaunch_LogsInAnyway(ok) == "login"

\* where control goes after uc.Chrome(...): on to the login, or, when it
\* raised, to the except clause and the finally clause
AfterLaunch(ok) == IF ok THEN "login" ELSE "finally"

\* uc.Chrome(...): an exception goes to the except clause, with driver = None
Launch ==
    /\ pc = "launch"
    /\ \E ok \in BOOLEAN :
         /\ driver' = IF ok THEN "open" ELSE "none"
         /\ pc' = AfterLaunch(ok)
    /\ UNCHANGED <<count, file0, file, login, login_page, i, created_users, calls,
                   io_log, exit_code>>
    /\ UNCHANGED <<id_vars, casc_vars, otp_password, popup_data, scraped, steps, failed, result>>

Login ==
    /\ pc = "login"
    /\ \E o \in LoginOutcomes :
         /\ login_page' = o
         /\ login' = login_aws_console(o)
         /\ pc' = AfterLogin(login_aws_console(o))
    /\ UNCHANGED <<count, file0, file, driver, i, created_users, calls,
                   io_log, exit_code>>
    /\ UNCHANGED <<id_vars, casc_vars, otp_password, popup_data, scraped, steps, failed, result>>

\* InRange with the bound included
InRange_Inclusive(k, n) == k <= n

\* `for i in range(count)`: whether the loop has another iteration
InRange(k, n) == k < n

\* for i in range(count): the head of the loop, the identity, and the call of
\* create_user_via_browser up to driver.get (the browser leaves the page the
\* login ended on) and the first find_elements, which raise or do not
LoopHead ==
    /\ pc = "loop"
    /\ IF InRange(i, count)
       THEN /\ \E local \in SampleLocalParts : email' = generate_random_email(local)
            /\ \E nm \in SampleNames : given_name' = nm[1] /\ family_name' = nm[2]
            /\ calls' = calls + 1
            /\ otp_password' = None
            /\ popup_data' = <<>>
            /\ scraped' = <<>>
            /\ failed' = {}
            /\ m' = 0
            /\ UNCHANGED <<add_user_btn, flag, tried, clicks>>
            /\ \E ok \in BOOLEAN :
                 IF ok
                 THEN /\ pc' = "add_user"
                      /\ steps' = <<"nav", "add_user">>
                      /\ UNCHANGED result
                 ELSE /\ pc' = "handle"
                      /\ steps' = <<"nav">>
                      /\ result' = PyFalse
       ELSE /\ pc' = "finally"
            /\ UNCHANGED <<calls, id_vars, casc_vars, otp_password, popup_data, scraped, steps, failed, result>>
    /\ login_page' = "none"
    /\ UNCHANGED <<count, file0, file, driver, login, i, created_users,
                   io_log, exit_code>>

\* add_user_btn = None / otp_clicked = False / next_clicked = False /
\* group_selected = False: the statement that opens a cascade
CascadeInit ==
    /\ pc \in Cascades
    /\ m = 0
    /\ m' = 1
    /\ flag' = FALSE
    /\ tried' = <<>>
    /\ clicks' = 0
    /\ add_user_btn' = IF pc = "add_user" THEN None ELSE add_user_btn
    /\ UNCHANGED <<pc, run_vars, id_vars, otp_password, popup_data, scraped, steps, failed, result>>

\* one lookup method of the 'Add user' cascade: skipped when an earlier one
\* found the button; finds it (method 3 also clicks it) or does not
AddUserMethod ==
    /\ pc = "add_user"
    /\ m >= 1
    /\ m <= AddUserMethods
    /\ IF m = 1 \/ ShouldTry(Truthy(add_user_btn))
       THEN \E ok \in BOOLEAN :
              /\ tried' = Append(tried, [method |-> m, ok |-> ok])
              /\ add_user_btn' = IF ok THEN FoundBy(m) ELSE add_user_btn
              /\ clicks' = IF ok /\ ~ NeedsClick(FoundBy(m)) THEN clicks + 1 ELSE clicks
       ELSE UNCHANGED <<tried, add_user_btn, clicks>>
    /\ m' = m + 1
    /\ UNCHANGED <<pc, flag, run_vars, id_vars, otp_password, popup_data, scraped, steps, failed, result>>

\* after the three methods: return False when none found the button (the debug
\* dump changes nothing of the run), else the Selenium click with its
\* script fallback, which clicks or raises out of the try block
AddUserEnd ==
    /\ pc = "add_user"
    /\ m > AddUserMethods
    /\ IF NotFound(add_user_btn)
       THEN /\ Abort
            /\ UNCHANGED <<clicks, m>>
       ELSE IF NeedsClick(add_user_btn)
       THEN \E ok \in BOOLEAN :
              IF ok
              THEN /\ clicks' = clicks + 1
                   /\ pc' = "add_click"
                   /\ UNCHANGED <<steps, result, m>>
              ELSE /\ Abort
                   /\ UNCHANGED <<clicks, m>>
       ELSE /\ pc' = "add_click"
            /\ UNCHANGED <<steps, result, clicks, m>>
    /\ UNCHANGED <<add_user_btn, flag, tried, run_vars, id_vars, otp_password, popup_data, scraped, failed>>

\* the cascade is over: its flag and its record are not read again
CascadeOver ==
    /\ m' = 0
    /\ flag' = FALSE
    /\ tried' = <<>>
    /\ clicks' = 0
    /\ add_user_btn' = None

\* FirstWizardStep with the form typed at once
FirstWizardStep_Form == "form"

\* what follows the click on 'Add user': the one-time-password option, which
\* "must be selected before the form is filled"
FirstWizardStep == "otp"

\* the form has been opened: on to the one-time-password option
AddUserClicked ==
    /\ pc = "add_click"
    /\ Goto(FirstWizardStep)
    /\ CascadeOver
    /\ UNCHANGED <<run_vars, id_vars, otp_password, popup_data, scraped, failed, result>>

\* one method of the otp / first Next / group cascade: skipped when an earlier
\* one clicked; clicks (and sets the flag) or fails (its exception is caught)
Method ==
    /\ pc \in Cascades \ {"add_user"}
    /\ m >= 1
    /\ m <= NMethods(pc)
    /\ IF m = 1 \/ ShouldTry(flag)
       THEN \E ok \in BOOLEAN :
              /\ tried' = Append(tried, [method |-> m, ok |-> ok])
              /\ flag' = (flag \/ ok)
              /\ clicks' = IF ok THEN clicks + 1 ELSE clicks
       ELSE UNCHANGED <<tried, flag, clicks>>
    /\ m' = m + 1
    /\ UNCHANGED <<pc, add_user_btn, run_vars, id_vars, otp_password, popup_data, scraped, steps, failed, result>>

\* after the otp cascade: a log line either way, then the form
OtpEnd ==
    /\ pc = "otp"
    /\ m > OtpMethods
    /\ failed' = IF flag THEN failed ELSE failed \cup {Logged("otp")}
    /\ Goto("form")
    /\ CascadeOver
    /\ UNCHANGED <<run_vars, id_vars, otp_password, popup_data, scraped, result>>

\* form filling and scrolling.  Listing the inputs and reading their
\* attributes is outside the per-field try and raises out of the iteration
\* ("raise"); an exception while typing is caught per field ("field_failed")
FormOutcomes == {"filled", "field_failed", "raise"}

Form ==
    /\ pc = "form"
    /\ \E o \in FormOutcomes :
         /\ failed' = IF o = "filled" THEN failed ELSE failed \cup {Logged("form")}
         /\ IF o = "raise"
            THEN Abort
            ELSE /\ Goto("next1")
                 /\ UNCHANGED result
    /\ UNCHANGED <<casc_vars, run_vars, id_vars, otp_password, popup_data, scraped>>

\* after the Next / group cascade: when no method clicked, a warning and
\* driver.save_screenshot, which is outside any inner try
CascadeEnd ==
    /\ pc \in {"next1", "group"}
    /\ m > NMethods(pc)
    /\ IF flag
       THEN /\ Goto(IF pc = "next1" THEN "group" ELSE "next2")
            /\ UNCHANGED <<failed, result>>
       ELSE /\ failed' = failed \cup {Logged(pc)}
            /\ \E shot_ok \in BOOLEAN :
                 IF shot_ok
                 THEN /\ Goto(IF pc = "next1" THEN "group" ELSE "next2")
                      /\ UNCHANGED result
                 ELSE Abort
    /\ CascadeOver
    /\ UNCHANGED <<run_vars, id_vars, otp_password, popup_data, scraped>>

\* the second Next: one page script in a try of its own; clicked or not,
\* nothing of it is kept
Next2 ==
    /\ pc = "next2"
    /\ Goto("confirm")
    /\ UNCHANGED <<casc_vars, run_vars, id_vars, otp_password, popup_data, scraped, failed, result>>

\* the final 'Add user' button: one page script in a try of its own; it
\* clicks the button or finds none or raises, and only the log line differs
Confirm ==
    /\ pc = "confirm"
    /\ \E ok \in BOOLEAN :
         failed' = IF ok THEN failed ELSE failed \cup {Logged("confirm")}
    /\ Goto("popup")
    /\ UNCHANGED <<casc_vars, run_vars, id_vars, otp_password, popup_data, scraped, result>>

\* what the popup field extractor can return for the dialog of an identity:
\* nothing, or the username and a one-time password
PopupCred == "Pop0!abcd"

PopupDicts(e) ==
    { <<>>,
      [k \in {"Username", "One-time_password"} |->
          IF k = "Username" THEN e ELSE PopupCred] }

\* popup_data = driver.execute_script(...): the fields of the dialog, or the
\* script raises and popup_data stays {}; then the permission prompt, the
\* debug dumps and the click on 'Show password', each in a try of its own
Popup ==
    /\ pc = "popup"
    /\ \E raises \in BOOLEAN :
         IF raises
         THEN UNCHANGED popup_data
         ELSE \E d \in PopupDicts(email) : popup_data' = d
    /\ pc' = "label"
    /\ steps' = steps \o <<"show", "label">>
    /\ UNCHANGED <<casc_vars, run_vars, id_vars, otp_password, scraped, failed, result>>

\* an extractor whose script or command raised (the exception is caught)
Raised == "<raised>"

\* the value an extractor hands over: None when it raised
Got(o) == IF o = Raised THEN None ELSE o

\* the entry of `scraped` for one run of an extractor
Ran(by, o) == [by |-> by, got |-> o]

\* the label-adjacency extractor: `otp_password = pwd_candidate` for the first
\* candidate that passes, or none (no candidate passes, or the script raises
\* and the exception is caught)
Label ==
    /\ pc = "label"
    /\ \E o \in LabelCreds \cup {None} :
         /\ otp_password' = IF Truthy(Got(o)) THEN Got(o) ELSE otp_password
         /\ scraped' = Append(scraped, Ran("label", o))
    /\ Goto("scan1")
    /\ UNCHANGED <<casc_vars, run_vars, id_vars, popup_data, failed, result>>

\* `if password_text: otp_password = password_text` after a page scan
AfterScan(otp, password_text) == IF Truthy(password_text) THEN password_text ELSE otp

\* SecondPhase entered whatever the first extractors found
SecondPhase_Always(otp) == TRUE

\* `if not otp_password:` before the second phase and before the Copy click
SecondPhase(otp) == ~ Truthy(otp)

\* the first page scan, then the test `if not otp_password:` of the second phase
Scan1 ==
    /\ pc = "scan1"
    /\ \E o \in ScanCreds \cup {None} :
         /\ otp_password' = AfterScan(otp_password, Got(o))
         /\ scraped' = Append(scraped, Ran("scan1", o))
         /\ IF SecondPhase(AfterScan(otp_password, Got(o)))
            THEN Goto("show2")
            ELSE Goto("close")
    /\ UNCHANGED <<casc_vars, run_vars, id_vars, popup_data, failed, result>>

\* the second phase, in one try: click 'Show password' again and scan the
\* page again; an exception of either script ends the phase
Scan2Outcomes == {"raise", "scanned"}

Show2 ==
    /\ pc = "show2"
    /\ \E o \in Scan2Outcomes :
         IF o = "raise"
         THEN /\ Goto("close")
              /\ UNCHANGED <<otp_password, scraped>>
         ELSE \E c \in ScanCreds \cup {None} :
                /\ otp_password' = AfterScan(otp_password, c)
                /\ scraped' = Append(scraped, Ran("scan2", c))
                /\ IF SecondPhase(AfterScan(otp_password, c))
                   THEN /\ pc' = "clipboard"
                        /\ steps' = steps \o <<"scan2", "clipboard">>
                   ELSE /\ pc' = "close"
                        /\ steps' = steps \o <<"scan2", "close">>
    /\ UNCHANGED <<casc_vars, run_vars, id_vars, popup_data, failed, result>>

\* click 'Copy' and read the clipboard with pbpaste: the clipboard text passes
\* the checks, or does not, or the script or the command raises (caught by
\* the except clause of the second phase)
Clipboard ==
    /\ pc = "clipboard"
    /\ \E o \in {clipboard_password(t) : t \in ClipboardTexts} \cup {Raised} :
         /\ otp_password' = IF Truthy(Got(o)) THEN Got(o) ELSE otp_password
         /\ scraped' = Append(scraped, Ran("clipboard", o))
    /\ Goto("close")
    /\ UNCHANGED <<casc_vars, run_vars, id_vars, popup_data, failed, result>>

\* close the dialog and return result_data
Close ==
    /\ pc = "close"
    /\ result' = result_data(email, given_name, family_name, otp_password)
    /\ pc' = "handle"
    /\ UNCHANGED <<casc_vars, run_vars, id_vars, otp_password, popup_data, scraped, steps, failed>>

\* AfterIteration with the login repeated between iterations
AfterIteration_LogsInAgain(success, raised) == IF raised THEN "finally" ELSE "login"

\* AfterIteration with a failed iteration ending the loop
AfterIteration_StopsOnFailure(success, raised) ==
    IF raised \/ ~ success THEN "finally" ELSE "loop"

\* register_users after an iteration: the loop goes on whatever the
\* iteration returned; only an exception that reaches the loop body leaves it
\* for the except clause
AfterIteration(success, raised) == IF raised THEN "finally" ELSE "loop"

\* register_users after create_user_via_browser returned: append and save a
\* success record (or the record of the elif branch), then the next iteration
Handle ==
    /\ pc = "handle"
    /\ IF IsSuccessRecord(result) \/ DictTruthy(result)
       THEN \E io \in IOOutcomes :
              LET rec   == IF IsSuccessRecord(result)
                           THEN result
                           ELSE LegacyRecord(email, given_name, family_name)
                  info  == IF IsSuccessRecord(result)
                           THEN WithoutSuccess(result)
                           ELSE rec
                  saved == save_user_to_file(info, file, io)
              IN  /\ created_users' = Append(created_users, rec)
                  /\ file' = saved.file
                  /\ io_log' = Append(io_log, io)
                  /\ pc' = AfterIteration(TRUE, saved.raised)
                  /\ i' = IF AfterIteration(TRUE, saved.raised) = "loop" THEN i + 1 ELSE i
       ELSE /\ pc' = AfterIteration(FALSE, FALSE)
            /\ i' = IF AfterIteration(FALSE, FALSE) = "loop" THEN i + 1 ELSE i
            /\ UNCHANGED <<created_users, file, io_log>>
    /\ DropLocals
    /\ UNCHANGED <<count, file0, driver, login, login_page, calls, exit_code>>

\* the finally clause: with a driver, input() and driver.quit() in one try
\* (input() raising skips quit); then return to main.  A reported login
\* failure returns [] and a launch or login exception leaves the list empty.
Finally ==
    /\ pc = "finally"
    /\ IF driver = "open"
       THEN \E input_ok \in BOOLEAN : driver' = IF input_ok THEN "quit" ELSE driver
       ELSE UNCHANGED driver
    /\ pc' = "main"
    /\ login_page' = "none"
    /\ UNCHANGED <<count, file0, file, login, i, created_users, calls,
                   io_log, exit_code>>
    /\ UNCHANGED <<id_vars, casc_vars, otp_password, popup_data, scraped, steps, failed, result>>

\* main after register_users returned: the summary and the exit status
Main ==
    /\ pc = "main"
    /\ exit_code' = main(created_users)
    /\ pc' = "exited"
    /\ UNCHANGED <<count, file0, file, driver, login, login_page, i, created_users, calls,
                   io_log>>
    /\ UNCHANGED <<id_vars, casc_vars, otp_password, popup_data, scraped, steps, failed, result>>

Next ==
    \/ Imports
    \/ Launch
    \/ Login
    \/ LoopHead
    \/ CascadeInit
    \/ AddUserMethod
    \/ AddUserEnd
    \/ AddUserClicked
    \/ Method
    \/ OtpEnd
    \/ Form
    \/ CascadeEnd
    \/ Next2
    \/ Confirm
    \/ Popup
    \/ Label
    \/ Scan1
    \/ Show2
    \/ Clipboard
    \/ Close
    \/ Handle
    \/ Finally
    \/ Main

Spec == Init /\ [][Next]_vars

----------------------------------------------------------------------------
(* save_user_to_file alone, on every shape of user_info: each of Username,
   Email and One-time_password missing, empty or set (the password also None) *)

Absent == "<absent>"

MkInfo(un, em, pw) ==
    LET ks == (IF un = Absent THEN {} ELSE {"Username"})
                \cup (IF em = Absent THEN {} ELSE {"Email"})
                \cup (IF pw = Absent THEN {} ELSE {"One-time_password"})
    IN  [k \in ks |-> CASE k = "Username" -> un
                        [] k = "Email" -> em
                        [] k = "One-time_password" -> pw]

UserInfos ==
    { MkInfo(un, em, pw) : un \in {Absent, "", "user000000@gmail.com"},
                           em \in {Absent, "", "mail@example.com"},
                           pw \in {Absent, None, "", "Pw1!abcd"} }

SaveInit ==
    /\ pc = "save_call"
    /\ result \in UserInfos
    /\ file0 \in InitialFiles
    /\ file = file0
    /\ count = 0
    /\ driver = "none"
    /\ login = "none"
    /\ login_page = "none"
    /\ i = 0
    /\ created_users = <<>>
    /\ email = ""
    /\ given_name = ""
    /\ family_name = ""
    /\ add_user_btn = None
    /\ flag = FALSE
    /\ m = 0
    /\ tried = <<>>
    /\ clicks = 0
    /\ otp_password = None
    /\ popup_data = <<>>
    /\ scraped = <<>>
    /\ steps = <<>>
    /\ failed = {}
    /\ calls = 0
    /\ io_log = <<>>
    /\ exit_code = NoExit

\* save_user_to_file(result), the file system doing either thing
SaveCall ==
    /\ pc = "save_call"
    /\ \E io \in IOOutcomes :
         LET saved == save_user_to_file(result, file, io)
         IN  /\ file' = saved.file
             /\ io_log' = Append(io_log, io)
             /\ pc' = IF saved.raised THEN "save_raised" ELSE "save_done"
    /\ UNCHANGED <<count, file0, driver, login, login_page, i, created_users, calls, exit_code>>
    /\ UNCHANGED <<id_vars, casc_vars, otp_password, popup_data, scraped, steps, failed, result>>

SaveNext == SaveCall

SaveSpec == SaveInit /\ [][SaveNext]_vars

----------------------------------------------------------------------------
(* The identity generators alone: the head of the loop of register_users,
   generate_random_email drawing its characters one at a time, and
   generate_random_name drawing from its two lists *)

\* string.ascii_lowercase + string.digits
chars_WithUppercase == "abcdefghijklmnopqrstuvwxyz" \o "ABCDEFGHIJ"

chars == "abcdefghijklmnopqrstuvwxyz" \o "0123456789"

\* range(10) of generate_random_email
UsernameLength == 10

first_names ==
    <<"John", "Jane", "Alex", "Chris", "Sam", "Taylor", "Jordan", "Morgan",
      "Casey", "Riley">>

last_names ==
    <<"Smith", "Johnson", "Williams", "Brown", "Jones", "Garcia", "Miller",
      "Davis", "Wilson">>

\* positions of chars that random.choice is sampled at: the first and the last
SampleDraws == {1, Len(chars)}

GenInit ==
    /\ pc = "gen_loop"
    /\ count \in 1 .. MaxCount
    /\ file0 = ""
    /\ file = ""
    /\ driver = "open"
    /\ login = "ok"
    /\ login_page = "none"
    /\ i = 0
    /\ created_users = <<>>
    /\ email = ""
    /\ given_name = ""
    /\ family_name = ""
    /\ add_user_btn = None
    /\ flag = FALSE
    /\ m = 0
    /\ tried = <<>>
    /\ clicks = 0
    /\ otp_password = None
    /\ popup_data = <<>>
    /\ scraped = <<>>
    /\ steps = <<>>
    /\ failed = {}
    /\ result = PyFalse
    /\ calls = 0
    /\ io_log = <<>>
    /\ exit_code = NoExit

gen_fixed == <<count, file0, file, driver, login, login_page, created_users, add_user_btn,
               flag, tried, clicks, otp_password, popup_data, scraped, failed,
               result, io_log, exit_code>>

\* for i in range(count): the next iteration starts generate_random_email
\* with no character drawn; `steps` lists what the iteration has generated
GenLoop ==
    /\ pc = "gen_loop"
    /\ IF i < count
       THEN /\ pc' = "gen_email"
            /\ email' = ""
            /\ m' = 0
            /\ steps' = <<>>
       ELSE /\ pc' = "gen_end"
            /\ UNCHANGED <<email, m, steps>>
    /\ UNCHANGED <<gen_fixed, i, given_name, family_name, calls>>

\* random.choice(chars), once for each element of range(10)
GenChar ==
    /\ pc = "gen_email"
    /\ m < UsernameLength
    /\ \E k \in SampleDraws : email' = email \o SubSeq(chars, k, k)
    /\ m' = m + 1
    /\ UNCHANGED <<gen_fixed, pc, i, given_name, family_name, calls, steps>>

\* return f"{username}@{domain}"
GenEmail ==
    /\ pc = "gen_email"
    /\ m = UsernameLength
    /\ email' = generate_random_email(email)
    /\ steps' = Append(steps, "email")
    /\ pc' = "gen_name"
    /\ UNCHANGED <<gen_fixed, i, m, given_name, family_name, calls>>

\* given_name, family_name = generate_random_name()
GenName ==
    /\ pc = "gen_name"
    /\ \E a \in DOMAIN first_names : given_name' = first_names[a]
    /\ \E b \in DOMAIN last_names : family_name' = last_names[b]
    /\ steps' = Append(steps, "name")
    /\ pc' = "gen_call"
    /\ UNCHANGED <<gen_fixed, i, m, email, calls>>

\* create_user_via_browser(driver, wait, email, given_name, family_name),
\* whatever it returns, and the end of the loop body: the identity is not
\* read again
GenCall ==
    /\ pc = "gen_call"
    /\ calls' = calls + 1
    /\ i' = i + 1
    /\ pc' = "gen_loop"
    /\ email' = ""
    /\ given_name' = ""
    /\ family_name' = ""
    /\ m' = 0
    /\ steps' = <<>>
    /\ UNCHANGED gen_fixed

GenNext ==
    \/ GenLoop
    \/ GenChar
    \/ GenEmail
    \/ GenName
    \/ GenCall

GenSpec == GenInit /\ [][GenNext]_vars

----------------------------------------------------------------------------
(* Properties *)

Max0(n) == IF n > 0 THEN n ELSE 0

IsPrefix(a, b) == Len(a) <= Len(b) /\ SubSeq(b, 1, Len(a)) = a

Occurs(line, text) ==
    \E k \in 1 .. (Len(text) - Len(line) + 1) : SubSeq(text, k, k + Len(line) - 1) = line

\* C1: the process ends with status 0 if register_users created at least one
\* user and with status 1 otherwise.
C1_ExitCodeReflectsCreation ==
    pc = "exited" => exit_code = (IF created_users # <<>> THEN 0 ELSE 1)

\* C2: when login_aws_console reports failure the run is aborted:
\* create_user_via_browser is never called, the output file is as it was,
\* register_users returns an empty list and the exit status is 1.
C2_LoginFailureAborts ==
    login = "fail" =>
        /\ pc \in {"finally", "main", "exited"}
        /\ calls = 0
        /\ file = file0
        /\ created_users = <<>>
        /\ (pc = "exited" => exit_code = 1)

C2_Witness == pc = "exited" /\ login = "fail" /\ count = MaxCount

\* C3 as stated: a login failure is the only failure that keeps the `count`
\* iterations from being attempted.
C3_OnlyLoginFailureIsFatal ==
    (pc = "exited" /\ login # "fail") => calls = Max0(count)

\* C3 as amended: a missing dependency, a browser launch error and a login
\* failure (reported, or raised by the navigation to the login page) end the
\* run before any iteration; once the login has succeeded, no failure inside
\* an iteration or of the file write keeps all `count` iterations from being
\* attempted.
C3_FatalOnlyBeforeTheLoop ==
    /\ (login # "ok" => calls = 0)
    /\ (pc \in {"finally", "main", "exited"} /\ login = "ok" => calls = Max0(count))

C3_Witness ==
    /\ pc = "exited"
    /\ login = "ok"
    /\ count = MaxCount
    /\ calls = MaxCount
    /\ Len(created_users) = 1
    /\ io_log = <<"fail">>

\* C4 as stated: an iteration that reaches the end of
\* create_user_via_browser without a credential returns a success record
\* with an empty password, the record is appended to created_users, and the
\* line email ---- newline is appended to the output file.
C4_PartialSuccessWritten ==
    [][ /\ (pc = "close" /\ ~ Truthy(otp_password)) =>
              /\ IsSuccessRecord(result')
              /\ DictGet(result', "Username") = email
              /\ DictGet(result', "One-time_password") = ""
        /\ (pc = "handle" /\ IsSuccessRecord(result)
                          /\ DictGet(result, "One-time_password") = "") =>
              /\ created_users' = Append(created_users, result)
              /\ file' = file \o email \o "----" \o "\n"
      ]_vars

\* C4 as amended: the same, except that the line is appended only when the
\* file can be opened and written; when that fails nothing is written and
\* the record stays in created_users.
C4_PartialSuccessRecorded ==
    [][ /\ (pc = "close" /\ ~ Truthy(otp_password)) =>
              /\ IsSuccessRecord(result')
              /\ DictGet(result', "Username") = email
              /\ DictGet(result', "One-time_password") = ""
        /\ (pc = "handle" /\ IsSuccessRecord(result)
                          /\ DictGet(result, "One-time_password") = "") =>
              /\ created_users' = Append(created_users, result)
              /\ Len(io_log') = Len(io_log) + 1
              /\ file' = IF io_log'[Len(io_log')] = "ok"
                         THEN file \o email \o "----" \o "\n"
                         ELSE file
      ]_vars

C4_Witness ==
    /\ pc = "loop"
    /\ Len(created_users) = 1
    /\ created_users[1]["One-time_password"] = ""
    /\ io_log = <<"ok">>
    /\ file = file0 \o created_users[1]["Username"] \o "----" \o "\n"
    /\ file0 # ""

ClaimedEmail(u) ==
    IF "Username" \in DOMAIN u /\ u["Username"] # "" THEN u["Username"]
    ELSE IF "Email" \in DOMAIN u /\ u["Email"] # "" THEN u["Email"]
    ELSE ""

ClaimedPassword(u) ==
    IF "One-time_password" \notin DOMAIN u THEN ""
    ELSE IF u["One-time_password"] \in {None, ""} THEN ""
    ELSE u["One-time_password"]

\* C5: every line save_user_to_file writes is email ---- password newline,
\* where email is Username, or Email when Username is missing or empty, or
\* the empty string, and password is One-time_password, or the empty string
\* when that is missing, None or empty.
C5_LineFormat ==
    pc = "save_done" =>
        file = IF io_log = <<"ok">>
               THEN file0 \o ClaimedEmail(result) \o "----" \o ClaimedPassword(result) \o "\n"
               ELSE file0

C5_Witness ==
    /\ pc = "save_done"
    /\ io_log = <<"ok">>
    /\ DOMAIN result = {"Username", "Email", "One-time_password"}
    /\ result["Username"] = ""
    /\ result["One-time_password"] = None
    /\ file0 # ""
    /\ file = file0 \o "mail@example.com----\n"

\* C6: the output file is append-only: every step of the program leaves the
\* content the file had before the step, and the content it had before the
\* run, as a prefix of its content.
C6_AppendOnly ==
    [][IsPrefix(file, file') /\ IsPrefix(file0, file')]_vars

C6_Witness ==
    /\ io_log = <<"ok", "ok">>
    /\ file0 # ""
    /\ Len(file) > Len(file0) + 2 * Len("aaaaaaaaaa@gmail.com----")

\* C7: a failure to open or write the output file is swallowed: the save
\* call returns normally, the record stays in created_users, the loop goes
\* on to the remaining iterations, and the exit status is computed from
\* created_users alone.
C7_WriteFailureSwallowed ==
    /\ [][ (pc = "handle" /\ IsSuccessRecord(result)) =>
              /\ created_users' = Append(created_users, result)
              /\ Len(io_log') = Len(io_log) + 1
              /\ (io_log'[Len(io_log')] = "fail" => file' = file)
              /\ pc' = "loop"
              /\ i' = i + 1
         ]_vars
    /\ [](/\ Len(io_log) = Len(created_users)
          /\ (pc \in {"finally", "main", "exited"} /\ login = "ok" => calls = Max0(count))
          /\ (pc = "exited" => exit_code = main(created_users)))

C7_Witness ==
    /\ pc = "exited"
    /\ count = MaxCount
    /\ calls = MaxCount
    /\ Len(created_users) = MaxCount
    /\ io_log[1] = "fail"
    /\ file = file0 \o created_users[2]["Username"] \o "----"
                    \o created_users[2]["One-time_password"] \o "\n"

RecordLine(r) ==
    DictGet(r, "Username") \o "----" \o DictGet(r, "One-time_password") \o "\n"

RECURSIVE LinesOf(_)
LinesOf(cu) ==
    IF cu = <<>> THEN ""
    ELSE LinesOf(SubSeq(cu, 1, Len(cu) - 1)) \o RecordLine(cu[Len(cu)])

NumLines(text) == Cardinality({k \in 1 .. Len(text) : SubSeq(text, k, k) = "\n"})

NoWriteFailure == \A k \in DOMAIN io_log : io_log[k] = "ok"

\* C8: in a run without write failures the lines appended to the output file
\* are the records of created_users, one line each and in the same order,
\* and an iteration that returned failure appends nothing.
C8_OneLinePerCreatedUser ==
    /\ [](NoWriteFailure =>
            /\ file = file0 \o LinesOf(created_users)
            /\ NumLines(file) - NumLines(file0) = Len(created_users))
    /\ [][ (pc = "handle" /\ ~ DictTruthy(result)) =>
              (file' = file /\ created_users' = created_users) ]_vars

C8_Witness ==
    /\ pc = "exited"
    /\ NoWriteFailure
    /\ Len(created_users) = 2
    /\ created_users[1] # created_users[2]
    /\ file0 # ""

Attempted(k) == \E j \in DOMAIN tried : tried[j].method = k

FailedMethod(k) == \E j \in DOMAIN tried : tried[j].method = k /\ ~ tried[j].ok

InCascade == pc \in Cascades \cup {"add_click"} /\ m >= 1

CurrentMethods == IF pc = "add_click" THEN AddUserMethods ELSE NMethods(pc)

\* C9: in each cascaded step (Add user: 3 methods, one-time-password
\* option: 4, first Next: 3, group: 6) method k+1 is attempted if and only
\* if methods 1..k all failed, no method runs after one that succeeded, and
\* at most one click takes effect in the step.
C9_CascadeOrder ==
    InCascade =>
        /\ \A k \in 1 .. (m - 1) :
              Attempted(k) <=> (\A j \in 1 .. (k - 1) : FailedMethod(j))
        /\ \A j \in DOMAIN tried : tried[j].ok => j = Len(tried)
        /\ m <= CurrentMethods + 1
        /\ clicks <= 1

C9_Witness ==
    /\ pc = "group"
    /\ m = GroupMethods + 1
    /\ Len(tried) = GroupMethods
    /\ tried[GroupMethods].ok
    /\ clicks = 1

StepsThroughScrape ==
    <<"nav", "add_user", "otp", "form", "next1", "group", "next2", "confirm",
      "popup", "show", "label", "scan1">>

AddUserWasClicked == Len(steps) >= 3 /\ steps[3] = "otp"

LaterStepFailed == \E s \in WizardSteps : Logged(s) \in failed

\* C10: once the 'Add user' entry point has been clicked, a later step that
\* fails (option not selectable, field not fillable, Next not clickable,
\* group not selectable) does not stop the iteration: every following step
\* up to the credential scrape is still attempted, in order.
C10_LaterFailureDoesNotStop ==
    (pc = "handle" /\ AddUserWasClicked /\ LaterStepFailed) =>
        /\ Len(steps) >= Len(StepsThroughScrape)
        /\ SubSeq(steps, 1, Len(StepsThroughScrape)) = StepsThroughScrape

\* the values the popup field extractor and the credential extractors obtained
\* in the current iteration
ScrapedValues ==
    ({popup_data[k] : k \in DOMAIN popup_data}
        \cup {Got(scraped[j].got) : j \in DOMAIN scraped}) \ {None, ""}

ExtractedCredentials ==
    {Got(scraped[j].got) : j \in DOMAIN scraped} \ {None, ""}

GeneratedEmails == {generate_random_email(l) : l \in SampleLocalParts}

LowercaseAndDigits ==
    {"a", "b", "c", "d", "e", "f", "g", "h", "i", "j", "k", "l", "m", "n", "o",
     "p", "q", "r", "s", "t", "u", "v", "w", "x", "y", "z",
     "0", "1", "2", "3", "4", "5", "6", "7", "8", "9"}

FirstNamePool ==
    {"John", "Jane", "Alex", "Chris", "Sam", "Taylor", "Jordan", "Morgan",
     "Casey", "Riley"}

LastNamePool ==
    {"Smith", "Johnson", "Williams", "Brown", "Jones", "Garcia", "Miller",
     "Davis", "Wilson"}

WellFormedEmail(e) ==
    /\ Len(e) = 10 + Len("@gmail.com")
    /\ SubSeq(e, 11, Len(e)) = "@gmail.com"
    /\ \A k \in 1 .. 10 : SubSeq(e, k, k) \in LowercaseAndDigits

\* C12: the identity passed to each call of create_user_via_browser was
\* generated in the iteration of that call, the email first and the names
\* after it: the email is a local part of exactly 10 characters out of the
\* lowercase letters and digits followed by @gmail.com, and the given and the
\* family name are members of the two fixed pools.
C12_FreshIdentityPerIteration ==
    /\ (pc = "gen_call" =>
          /\ steps = <<"email", "name">>
          /\ calls = i
          /\ WellFormedEmail(email)
          /\ given_name \in FirstNamePool
          /\ family_name \in LastNamePool)
    /\ (pc = "gen_end" => calls = count)

C12_Witness ==
    /\ pc = "gen_call"
    /\ i = 1
    /\ calls = 1
    /\ email = "a99a9aaaa9@gmail.com"
    /\ given_name = "Riley"
    /\ family_name = "Wilson"

IterationPcs ==
    {"add_user", "add_click", "otp", "form", "next1", "group", "next2",
     "confirm", "popup", "label", "scan1", "show2", "clipboard", "close",
     "handle"}

SessionUsedInOrder ==
    /\ (pc = "launch" => driver = "none" /\ login = "none" /\ calls = 0)
    /\ (pc = "login" => driver = "open" /\ login = "none" /\ calls = 0)
    /\ (pc \in IterationPcs \cup {"loop"} => driver = "open" /\ login = "ok")
    /\ (calls > 0 => login = "ok")
    /\ (pc \in IterationPcs => calls = i + 1)
    /\ (pc = "loop" => calls = i)
    /\ (driver = "quit" => pc \in {"main", "exited"})

\* C13 as stated: in every run exactly one browser session is launched and
\* login is attempted exactly once on it; the login attempt precedes every
\* iteration and the iterations run one after another on that session.
C13_ExactlyOneSessionAndLogin ==
    /\ SessionUsedInOrder
    /\ (pc = "exited" => driver # "none" /\ login # "none")

\* C13 as amended: in every run at most one browser session is launched
\* (none when a dependency is missing or the launch raises); on a launched
\* session login is attempted exactly once, never retried and never repeated
\* between iterations; the login attempt precedes every create-user
\* iteration, and the iterations run strictly one after another on that same
\* session.
C13_AtMostOneSessionOneLogin ==
    /\ SessionUsedInOrder
    /\ (pc \in {"finally", "main", "exited"} =>
          (driver # "none" <=> login # "none"))

C13_Witness ==
    /\ pc = "exited"
    /\ driver = "quit"
    /\ login = "ok"
    /\ count = MaxCount
    /\ calls = MaxCount
    /\ Len(created_users) = 1

\* C14: after a successful login create_user_via_browser is invoked exactly
\* `count` times (zero times when count is 0 or negative), once per
\* iteration, whether or not earlier iterations returned failure: a failed
\* iteration never ends the loop early.
C14_ExactlyCountCalls ==
    /\ [](/\ calls <= Max0(count)
          /\ ((login = "ok" /\ pc \in {"finally", "main", "exited"}) =>
                (calls = Max0(count) /\ i = Max0(count))))
    /\ [][ /\ (calls' # calls => (calls' = calls + 1 /\ pc = "loop" /\ i = calls))
           /\ (pc = "handle" => (pc' = "loop" /\ i' = i + 1)) ]_vars

C14_Witness ==
    /\ pc = "exited"
    /\ login = "ok"
    /\ count = MaxCount
    /\ calls = MaxCount
    /\ created_users = <<>>

\* C15: an entry is added to created_users only for an iteration in which
\* the final 'Add user' confirmation button was found and clicked.
C15_RecordOnlyAfterConfirmation ==
    [][Len(created_users') > Len(created_users) => Logged("confirm") \notin failed]_vars

\* C16: login_aws_console reports failure only when a step of the login form
\* (locating a field, typing a credential, clicking the sign-in control)
\* raises; when the steps complete it reports success even if the URL is not
\* a console URL, and the run then goes on to the create-user iterations.
C16_LoginReportsFailureOnlyOnException ==
    /\ [](login_page # "none" =>
            /\ (login = "fail" <=> login_page = "raise_in_try")
            /\ (login_page \in {"console", "other_url"} =>
                  (login = "ok" /\ pc = "loop" /\ i = 0 /\ calls = 0)))
    /\ [][(login_page \in {"console", "other_url"} /\ count > 0) =>
              (calls' = 1 /\ login' = "ok")]_vars

C16_Witness ==
    /\ pc = "loop"
    /\ login_page = "other_url"
    /\ login = "ok"
    /\ count = MaxCount

\* C17: the first extractor that yields a non-empty credential wins: once an
\* extractor has produced a credential, no later extractor (page scan, second
\* page scan, clipboard) replaces it.
C17_FirstCredentialWins ==
    [][(pc \in {"scan1", "show2", "clipboard"} /\ Truthy(otp_password)) =>
          otp_password' = otp_password]_vars

ProducedNone(j) == ~ Truthy(Got(scraped[j].got))

\* C18: the second phase (click 'Show password' again, scan the page again)
\* runs only if neither the label extractor nor the first page scan produced
\* a credential, and the 'Copy' click with the clipboard read only if the
\* second scan produced none either; a failure of the clipboard command is
\* caught and leaves the iteration successful with an empty credential.
C18_SecondPhaseOnlyWithoutCredential ==
    /\ (pc = "show2" =>
          /\ Len(scraped) = 2
          /\ scraped[1].by = "label" /\ ProducedNone(1)
          /\ scraped[2].by = "scan1" /\ ProducedNone(2)
          /\ ~ Truthy(otp_password))
    /\ (pc = "clipboard" =>
          /\ Len(scraped) = 3
          /\ \A j \in 1 .. 3 : ProducedNone(j)
          /\ scraped[3].by = "scan2"
          /\ ~ Truthy(otp_password))
    /\ (\A j \in DOMAIN scraped :
          scraped[j].by \in {"scan2", "clipboard"} => \A k \in 1 .. (j - 1) : ProducedNone(k))
    /\ ((pc = "handle" /\ Len(scraped) = 4 /\ scraped[4] = Ran("clipboard", Raised)) =>
          /\ IsSuccessRecord(result)
          /\ result["One-time_password"] = "")

C18_Witness ==
    /\ pc = "handle"
    /\ Len(scraped) = 4
    /\ scraped[4] = Ran("clipboard", Raised)
    /\ IsSuccessRecord(result)
    /\ result["One-time_password"] = ""

\* C19: when the popup field extractor is the only extractor that finds a
\* one-time password, the returned record carries that password rather than
\* an empty credential.
C19_PopupPasswordKept ==
    (/\ pc = "handle"
     /\ IsSuccessRecord(result)
     /\ Truthy(DictGet(popup_data, "One-time_password"))
     /\ ExtractedCredentials = {}) =>
        result["One-time_password"] = popup_data["One-time_password"]

\* C20: whenever the browser was launched, driver.quit() has been called by
\* the time register_users returns, also when the 'press Enter' prompt fails.
C20_BrowserQuitBeforeReturn ==
    pc \in {"main", "exited"} => driver # "open"

----------------------------------------------------------------------------
(* The form filling of create_user_via_browser alone, on sampled pages.  An
   input element is referred to by its position in `inputs`.  Here `result`
   holds inputs, `tried` holds form_inputs, `m` is the position of the loop
   in form_inputs, `clicks` is filled_count, and `steps` lists what was
   typed: the element, the text, and whether clear() and human_type()
   returned. *)

\* most <input> elements a sampled page has
MaxInputs == 2

Elem(displayed, type, placeholder, id) ==
    [displayed |-> displayed, type |-> type, placeholder |-> placeholder, id |-> id]

\* <input> elements the page is sampled to hold; an attribute the element
\* lacks reads as None
SampleInputs ==
    { Elem(TRUE, "text", "Enter username", None),
      Elem(TRUE, "text", "Enter first name", None),
      Elem(TRUE, "text", "Enter last name", None),
      Elem(TRUE, "text", "Enter display name", None),
      Elem(TRUE, "email", "name@example.com", None),
      Elem(TRUE, "email", "Enter Email address", None),
      Elem(TRUE, "text", "First USERNAME", None),
      Elem(TRUE, "text", "Last display", None),
      Elem(TRUE, "text", "Phone", None),
      Elem(TRUE, "text", None, None),
      Elem(TRUE, "text", "Search", None),
      Elem(TRUE, "text", "Enter username", "Search-box"),
      Elem(FALSE, "text", "Enter username", None),
      Elem(TRUE, "password", "Enter username", None) }

Pages == UNION {[1 .. n -> SampleInputs] : n \in 0 .. MaxInputs}

\* [inp for inp in inputs if inp.is_displayed() and type in ["text", "email"]]
visible_inputs(inputs) ==
    SelectSeq([k \in DOMAIN inputs |-> k],
              LAMBDA k : inputs[k].displayed /\ inputs[k].type \in {"text", "email"})

\* [inp for inp in visible_inputs if placeholder != "Search" and
\*  "search" not in (id or "").lower()]
form_inputs(inputs) ==
    SelectSeq(visible_inputs(inputs),
              LAMBDA k : /\ inputs[k].placeholder # "Search"
                         /\ ~ Contains(Lower(PyOr(inputs[k].id, "")), "search"))

\* field_text with "first" tested before "username"
field_text_FirstBeforeUsername(placeholder, e, g, f) ==
    IF Contains(placeholder, "first") THEN g
    ELSE IF Contains(placeholder, "username") THEN e
    ELSE IF Contains(placeholder, "last") THEN f
    ELSE IF Contains(placeholder, "display") THEN g \o " " \o f
    ELSE IF Contains(placeholder, "@example.com") \/ Contains(placeholder, "email") THEN e
    ELSE None

\* the if / elif chain on the lower-cased placeholder: the text typed into the
\* input, None when no branch is taken
field_text(placeholder, e, g, f) ==
    IF Contains(placeholder, "username") THEN e
    ELSE IF Contains(placeholder, "first") THEN g
    ELSE IF Contains(placeholder, "last") THEN f
    ELSE IF Contains(placeholder, "display") THEN g \o " " \o f
    ELSE IF Contains(placeholder, "@example.com") \/ Contains(placeholder, "email") THEN e
    ELSE None

FormInit ==
    /\ pc = "form_list"
    /\ result \in Pages
    /\ email = "aaaaaaaaaa@gmail.com"
    /\ given_name = "John"
    /\ family_name = "Smith"
    /\ tried = <<>>
    /\ m = 0
    /\ clicks = 0
    /\ steps = <<>>
    /\ count = 1
    /\ file0 = ""
    /\ file = ""
    /\ driver = "open"
    /\ login = "ok"
    /\ login_page = "none"
    /\ i = 0
    /\ created_users = <<>>
    /\ add_user_btn = None
    /\ flag = FALSE
    /\ otp_password = None
    /\ popup_data = <<>>
    /\ scraped = <<>>
    /\ failed = {}
    /\ calls = 1
    /\ io_log = <<>>
    /\ exit_code = NoExit

form_fixed == <<count, file0, file, driver, login, login_page, i, created_users,
                email, given_name, family_name, add_user_btn, flag, otp_password,
                popup_data, scraped, failed, result, calls, io_log, exit_code>>

\* inputs = driver.find_elements(...); visible_inputs; form_inputs;
\* filled_count = 0
FormList ==
    /\ pc = "form_list"
    /\ tried' = form_inputs(result)
    /\ m' = 1
    /\ clicks' = 0
    /\ pc' = "form_fill"
    /\ UNCHANGED <<form_fixed, steps>>

\* what clear() and human_type() do for one input: return, or raise
FillOutcomes == {"typed", "raise"}

\* one pass of `for i, inp in enumerate(form_inputs)`: the branch taken, if
\* any, clears the input and types its text, then counts it; an exception
\* of clear() or human_type() is caught and logged
FormField ==
    /\ pc = "form_fill"
    /\ m <= Len(tried)
    /\ LET inp == result[tried[m]]
           placeholder == Lower(PyOr(inp.placeholder, ""))
           text == field_text(placeholder, email, given_name, family_name)
       IN  IF text = None
           THEN UNCHANGED <<steps, clicks>>
           ELSE \E o \in FillOutcomes :
                  /\ steps' = Append(steps, [inp |-> tried[m], text |-> text,
                                             ok |-> o = "typed"])
                  /\ clicks' = IF o = "typed" THEN clicks + 1 ELSE clicks
    /\ m' = m + 1
    /\ UNCHANGED <<form_fixed, pc, tried>>

\* log(f"... {filled_count} ..."): the loop is over
FormDone ==
    /\ pc = "form_fill"
    /\ m > Len(tried)
    /\ pc' = "form_done"
    /\ UNCHANGED <<form_fixed, tried, m, clicks, steps>>

FormNext ==
    \/ FormList
    \/ FormField
    \/ FormDone

FormSpec == FormInit /\ [][FormNext]_vars

----------------------------------------------------------------------------
(* The label-adjacency extractor of create_user_via_browser alone, on sampled
   results of its page script.  Here `scraped` holds otp_from_label, `m` is
   the position of the loop in it, and `otp_password` is the local it
   assigns. *)

\* most strings the page script is sampled to return
MaxItems == 2

\* strings the page script is sampled to push to `results`
SampleItems ==
    { "sibling: Lbl1!abcd",
      "next: Other2#xyz",
      "sibling-input: on",
      "next: User password was reset",
      "next: Userpasswordwasreset1",
      "sibling: https://d-1.awsapps.com/start",
      "next: d-1.awsapps.com/x",
      "next: httpAbc123",
      "sibling: user@gmail.com",
      "next: a@b@c.dddd",
      "sibling: short",
      "sibling: two words1",
      "sibling: ab:cd:ef12",
      "parent-input[0]: Lbl1!abcd\r\nHide password",
      "next: Hide passwordKeep9$pw",
      "Nocolon1!",
      "next: L0ng!xxxxxxxxxxxxxxxxxxxxxxxxxxxxxxxxxxxxxxxxxxxxxxxxxxxxxxxxxxxxxxxxxxxxxxxxxxxx" }

ItemLists == UNION {[1 .. n -> SampleItems] : n \in 0 .. MaxItems}

\* pwd_candidate as the loop computes it from an item: what follows the
\* first ':', stripped, cut at the first '\n' and stripped, 'Hide password'
\* removed and stripped
pwd_candidate(item) ==
    LET after == Strip(AfterFirst(item, ":"))
        line  == IF Contains(after, "\n") THEN Strip(BeforeFirst(after, "\n")) ELSE after
    IN  Strip(Remove(line, "Hide password"))

\* re.match(r'^[^@]+@[^@]+\.[^@]+$', c)
MatchesEmail(c) ==
    \E a \in 2 .. Len(c) : \E b \in (a + 2) .. (Len(c) - 1) :
        /\ CharAt(c, a) = "@"
        /\ CharAt(c, b) = "."
        /\ \A k \in (1 .. Len(c)) \ {a} : CharAt(c, k) # "@"

\* label_accepts without the test of the email pattern
label_accepts_NoEmailTest(c) ==
    IF Contains(c, "User password was reset") THEN FALSE
    ELSE IF Contains(c, "awsapps.com") THEN FALSE
    ELSE IF StartsWith(c, "http") THEN FALSE
    ELSE IF Contains(c, " ") THEN FALSE
    ELSE IF c = "on" THEN FALSE
    ELSE c # "" /\ Len(c) >= 8 /\ Len(c) <= 80

\* the `continue` tests of the loop and its final test: TRUE when the
\* candidate becomes otp_password
label_accepts(c) ==
    IF Contains(c, "User password was reset") THEN FALSE
    ELSE IF Contains(c, "awsapps.com") THEN FALSE
    ELSE IF StartsWith(c, "http") THEN FALSE
    ELSE IF Contains(c, " ") THEN FALSE
    ELSE IF c = "on" THEN FALSE
    ELSE IF MatchesEmail(c) THEN FALSE
    ELSE c # "" /\ Len(c) >= 8 /\ Len(c) <= 80

LabelInit ==
    /\ pc = "label_loop"
    /\ scraped \in ItemLists
    /\ m = 1
    /\ otp_password = None
    /\ email = "aaaaaaaaaa@gmail.com"
    /\ given_name = "John"
    /\ family_name = "Smith"
    /\ result = PyFalse
    /\ tried = <<>>
    /\ clicks = 0
    /\ steps = <<>>
    /\ count = 1
    /\ file0 = ""
    /\ file = ""
    /\ driver = "open"
    /\ login = "ok"
    /\ login_page = "none"
    /\ i = 0
    /\ created_users = <<>>
    /\ add_user_btn = None
    /\ flag = FALSE
    /\ popup_data = <<>>
    /\ failed = {}
    /\ calls = 1
    /\ io_log = <<>>
    /\ exit_code = NoExit

label_fixed == <<count, file0, file, driver, login, login_page, i, created_users,
                 email, given_name, family_name, add_user_btn, flag, tried, clicks,
                 popup_data, scraped, steps, failed, result, calls, io_log, exit_code>>

\* one pass of `for item in otp_from_label`: an item without ':' or with a
\* refused candidate goes on to the next; an accepted candidate is assigned
\* and breaks the loop
LabelItem ==
    /\ pc = "label_loop"
    /\ m <= Len(scraped)
    /\ IF Contains(scraped[m], ":") /\ label_accepts(pwd_candidate(scraped[m]))
       THEN /\ otp_password' = pwd_candidate(scraped[m])
            /\ pc' = "label_done"
            /\ UNCHANGED m
       ELSE /\ m' = m + 1
            /\ UNCHANGED <<otp_password, pc>>
    /\ UNCHANGED label_fixed

\* the list is exhausted
LabelEnd ==
    /\ pc = "label_loop"
    /\ m > Len(scraped)
    /\ pc' = "label_done"
    /\ UNCHANGED <<label_fixed, m, otp_password>>

LabelNext ==
    \/ LabelItem
    \/ LabelEnd

LabelSpec == LabelInit /\ [][LabelNext]_vars

----------------------------------------------------------------------------
(* The three copies of the page-script function isValidPassword alone, on
   sampled texts.  Here `otp_password` holds the text a copy is called on and
   `scraped` lists, in the order of the calls, which copy ran and what it
   returned. *)

\* regionPatterns of the popup extractor and of the second page scan
regionPatterns ==
    {"us-east", "us-west", "eu-west", "eu-central", "eu-north", "eu-south",
     "ap-south", "ap-northeast", "ap-southeast", "ap-east", "ca-central", "sa-east",
     "me-south", "me-central", "af-south", "il-central",
     "Canada", "Ohio", "Virginia", "Oregon", "California", "Ireland", "London", "Paris",
     "Frankfurt", "Stockholm", "Milan", "Mumbai", "Singapore", "Sydney", "Tokyo", "Seoul",
     "Central"}

\* regionPatterns of the first page scan: the list ends at 'Seoul'
regionPatterns_scan1 == regionPatterns \ {"Central"}

\* the class [!@#$%^&*()_+=\[\]{}|;:,.<>?~\-/<>]
SpecialChars == CharsOf("!@#$%^&*()_+=[]{}|;:,.<>?~-/")

\* isValidPassword of the popup extractor
isValidPassword_popup(text) ==
    IF text = "" \/ Len(text) < 8 \/ Len(text) > 60 THEN FALSE
    ELSE IF Contains(text, "@") THEN FALSE
    ELSE IF CharsOf(text) \cap Whitespace # {} THEN FALSE
    ELSE IF \E r \in regionPatterns : Contains(text, r) THEN FALSE
    ELSE IF Contains(text, "awsapps.com") THEN FALSE
    ELSE IF Contains(text, "portal.") THEN FALSE
    ELSE IF Contains(text, "http") THEN FALSE
    ELSE IF CharsOf(text) \cap UpperLetters = {} THEN FALSE
    ELSE IF CharsOf(text) \cap LowerLetters = {} THEN FALSE
    ELSE IF CharsOf(text) \cap Digits = {} THEN FALSE
    ELSE IF CharsOf(text) \cap SpecialChars = {} THEN FALSE
    ELSE TRUE

\* isValidPassword_scan1 without its test of 'Central'
isValidPassword_scan1_NoCentral(text) ==
    IF text = "" \/ Len(text) < 8 \/ Len(text) > 60 THEN FALSE
    ELSE IF Contains(text, "@") THEN FALSE
    ELSE IF CharsOf(text) \cap Whitespace # {} THEN FALSE
    ELSE IF \E r \in regionPatterns_scan1 : Contains(text, r) THEN FALSE
    ELSE IF Contains(text, "awsapps.com") THEN FALSE
    ELSE IF Contains(text, "portal.") THEN FALSE
    ELSE IF Contains(text, "http") THEN FALSE
    ELSE IF CharsOf(text) \cap UpperLetters = {} THEN FALSE
    ELSE IF CharsOf(text) \cap LowerLetters = {} THEN FALSE
    ELSE IF CharsOf(text) \cap Digits = {} THEN FALSE
    ELSE IF CharsOf(text) \cap SpecialChars = {} THEN FALSE
    ELSE TRUE

\* isValidPassword of the first page scan: 'Central' is tested on its own,
\* after the URL tests
isValidPassword_scan1(text) ==
    IF text = "" \/ Len(text) < 8 \/ Len(text) > 60 THEN FALSE
    ELSE IF Contains(text, "@") THEN FALSE
    ELSE IF CharsOf(text) \cap Whitespace # {} THEN FALSE
    ELSE IF \E r \in regionPatterns_scan1 : Contains(text, r) THEN FALSE
    ELSE IF Contains(text, "awsapps.com") THEN FALSE
    ELSE IF Contains(text, "portal.") THEN FALSE
    ELSE IF Contains(text, "http") THEN FALSE
    ELSE IF Contains(text, "Central") THEN FALSE
    ELSE IF CharsOf(text) \cap UpperLetters = {} THEN FALSE
    ELSE IF CharsOf(text) \cap LowerLetters = {} THEN FALSE
    ELSE IF CharsOf(text) \cap Digits = {} THEN FALSE
    ELSE IF CharsOf(text) \cap SpecialChars = {} THEN FALSE
    ELSE TRUE

\* isValidPassword of the second page scan
isValidPassword_scan2(text) ==
    IF text = "" \/ Len(text) < 8 \/ Len(text) > 60 THEN FALSE
    ELSE IF Contains(text, "@") THEN FALSE
    ELSE IF CharsOf(text) \cap Whitespace # {} THEN FALSE
    ELSE IF \E r \in regionPatterns : Contains(text, r) THEN FALSE
    ELSE IF Contains(text, "awsapps.com") THEN FALSE
    ELSE IF Contains(text, "portal.") THEN FALSE
    ELSE IF Contains(text, "http") THEN FALSE
    ELSE IF CharsOf(text) \cap UpperLetters = {} THEN FALSE
    ELSE IF CharsOf(text) \cap LowerLetters = {} THEN FALSE
    ELSE IF CharsOf(text) \cap Digits = {} THEN FALSE
    ELSE IF CharsOf(text) \cap SpecialChars = {} THEN FALSE
    ELSE TRUE

\* texts of the page the copies are sampled at
SampleTexts ==
    { "", "Ab1!", "Ab1!abcd", "Scan2?abc", "Pop0!abcd",
      "Ab1!xxxxxxxxxxxxxxxxxxxxxxxxxxxxxxxxxxxxxxxxxxxxxxxxxxxxxxxx", "Ab1!xxxxxxxxxxxxxxxxxxxxxxxxxxxxxxxxxxxxxxxxxxxxxxxxxxxxxxxxx",
      "Ab1!ab@cd", "Ab1! abcd", "Ab1!\tabcd", "Ab1!\nabcd",
      "Ab1!us-east", "Ab1!eu-central-1", "Ab1!ap-southeast", "Ohio1!abcd",
      "Tokyo1!abcd", "Seoul1!aB",
      "Ab1!Central", "Central1!a", "Ab1!central",
      "x1.awsapps.comA!", "Aportal.1!abc", "Ahttp1!abcd",
      "ab1!abcd", "AB1!ABCD", "Abc!abcd", "Abc1abcd",
      "Abc1abc'", "Abc1abc-", "Abc1abc/", "Abc1abc]", "Abc1abc_", "Abc1abc\\" }

ValidInit ==
    /\ pc = "valid"
    /\ otp_password \in SampleTexts
    /\ scraped = <<>>
    /\ m = 0
    /\ email = "aaaaaaaaaa@gmail.com"
    /\ given_name = "John"
    /\ family_name = "Smith"
    /\ result = PyFalse
    /\ tried = <<>>
    /\ clicks = 0
    /\ steps = <<>>
    /\ count = 1
    /\ file0 = ""
    /\ file = ""
    /\ driver = "open"
    /\ login = "ok"
    /\ login_page = "none"
    /\ i = 0
    /\ created_users = <<>>
    /\ add_user_btn = None
    /\ flag = FALSE
    /\ popup_data = <<>>
    /\ failed = {}
    /\ calls = 1
    /\ io_log = <<>>
    /\ exit_code = NoExit

valid_fixed == <<pc, count, file0, file, driver, login, login_page, i, created_users,
                 email, given_name, family_name, add_user_btn, flag, m, tried, clicks,
                 otp_password, popup_data, steps, failed, result, calls, io_log,
                 exit_code>>

HasRun(by) == \E k \in DOMAIN scraped : scraped[k].by = by

\* the popup extractor calls its copy on the text
ValidPopup ==
    /\ pc = "valid"
    /\ ~ HasRun("popup")
    /\ scraped' = Append(scraped, Ran("popup", isValidPassword_popup(otp_password)))
    /\ UNCHANGED valid_fixed

\* the first page scan calls its copy on the text
ValidScan1 ==
    /\ pc = "valid"
    /\ ~ HasRun("scan1")
    /\ scraped' = Append(scraped, Ran("scan1", isValidPassword_scan1(otp_password)))
    /\ UNCHANGED valid_fixed

\* the second page scan calls its copy on the text
ValidScan2 ==
    /\ pc = "valid"
    /\ ~ HasRun("scan2")
    /\ scraped' = Append(scraped, Ran("scan2", isValidPassword_scan2(otp_password)))
    /\ UNCHANGED valid_fixed

ValidNext ==
    \/ ValidPopup
    \/ ValidScan1
    \/ ValidScan2

ValidSpec == ValidInit /\ [][ValidNext]_vars

----------------------------------------------------------------------------
(* C21..C28 *)

LineBreaks == {"\n", "\r"}

\* C21: every record occupies one line: whatever extractor produced it, the
\* credential of a success record holds no line-break character, and neither
\* does its email.
C21_RecordOnOneLine ==
    (pc = "handle" /\ IsSuccessRecord(result)) =>
        /\ CharsOf(result["Username"]) \cap LineBreaks = {}
        /\ Truthy(result["One-time_password"]) =>
              CharsOf(result["One-time_password"]) \cap LineBreaks = {}

\* text.splitlines(): the lines of a text, without their terminators
RECURSIVE SplitLines(_)
SplitLines(text) ==
    IF text = "" THEN <<>>
    ELSE IF Contains(text, "\n")
    THEN <<BeforeFirst(text, "\n")>> \o SplitLines(AfterFirst(text, "\n"))
    ELSE <<text>>

\* the text a step appends to the output file
Appended == SubSeq(file', Len(file) + 1, Len(file'))

\* C22: every line a run writes parses back: split at its first "----" it
\* yields the email generated in the iteration and the credential the
\* iteration obtained (nothing when it obtained none), whatever the
\* credential contains.
C22_LinesParseBack ==
    [][ (pc = "handle" /\ IsSuccessRecord(result) /\ file' # file) =>
          \A k \in DOMAIN SplitLines(Appended) :
             LET line == SplitLines(Appended)[k]
             IN  /\ Contains(line, "----")
                 /\ BeforeFirst(line, "----") = email
                 /\ AfterFirst(line, "----") = PyOr(result["One-time_password"], "") ]_vars

\* none of the lookup methods of 'Add user' found the entry point
NoneFoundAddUser ==
    /\ Len(tried) = AddUserMethods
    /\ \A k \in DOMAIN tried : ~ tried[k].ok

\* C23: when none of the three lookup methods finds 'Add user', the
\* iteration returns failure with no later step attempted (nothing selected,
\* typed, clicked or scraped); register_users then adds nothing to
\* created_users, appends no line and goes on to the next iteration.
C23_AddUserNotFound ==
    /\ [][ (pc = "add_user" /\ m > AddUserMethods /\ NoneFoundAddUser) =>
             /\ pc' = "handle"
             /\ result' = PyFalse
             /\ steps' = <<"nav", "add_user">>
             /\ clicks' = 0
             /\ scraped' = <<>>
             /\ file' = file
             /\ created_users' = created_users ]_vars
    /\ [][ (pc = "handle" /\ steps = <<"nav", "add_user">> /\ NoneFoundAddUser) =>
             /\ created_users' = created_users
             /\ file' = file
             /\ pc' = "loop"
             /\ i' = i + 1
             /\ calls' = calls ]_vars

\* the second iteration has not found 'Add user' either: nothing was recorded
C23_Witness ==
    /\ pc = "handle"
    /\ steps = <<"nav", "add_user">>
    /\ NoneFoundAddUser
    /\ calls = 2
    /\ created_users = <<>>
    /\ file = file0

\* register_users is over, or main is, and no browser was ever launched: the
\* import failed or uc.Chrome raised
NeverLaunched == pc \in {"finally", "main", "exited"} /\ driver = "none"

\* C24: if the dependencies cannot be imported or the browser fails to
\* launch, login is never attempted, no iteration runs, no line is written,
\* register_users returns the empty list, and the exit code is 1.
C24_NoBrowserNoRun ==
    NeverLaunched =>
        /\ login = "none"
        /\ calls = 0
        /\ i = 0
        /\ file = file0
        /\ created_users = <<>>
        /\ pc = "exited" => exit_code = 1

\* the process has exited after uc.Chrome raised, asked for two users
C24_Witness ==
    /\ pc = "exited"
    /\ driver = "none"
    /\ count = 2
    /\ exit_code = 1

\* the steps of an iteration in the order the claim gives them, the
\* credential scraping spelled out extractor by extractor
ClaimedOrder ==
    <<"nav", "add_user", "otp", "form", "next1", "group", "next2", "confirm",
      "popup", "show", "label", "scan1", "show2", "scan2", "clipboard", "close">>

\* steps the second phase of the scraping adds when no credential was found
SecondPhaseSteps == {"show2", "scan2", "clipboard"}

Extractors == {"popup", "label", "scan1", "scan2", "clipboard"}

\* the claimed order with some steps of the second phase left out, cut
\* at any step
RunsInOrder ==
    UNION { {SubSeq(SelectSeq(ClaimedOrder, LAMBDA x : x \notin d), 1, n) :
               n \in 0 .. (Len(ClaimedOrder) - Cardinality(d))} :
            d \in SUBSET SecondPhaseSteps }

\* in the run q, a was attempted, and b after it
Before(q, a, b) ==
    \E k \in DOMAIN q : q[k] = b /\ \E j \in 1 .. (k - 1) : q[j] = a

\* the option precedes the form, the confirmation attempt precedes every
\* extractor, and close is last and follows the extractors
OrderInParticular(q) ==
    \A k \in DOMAIN q :
        /\ q[k] = "form" => Before(q, "otp", "form")
        /\ q[k] \in Extractors => Before(q, "confirm", q[k])
        /\ q[k] = "close" =>
              /\ k = Len(q)
              /\ \A e \in Extractors \ SecondPhaseSteps : Before(q, e, "close")

\* the runs in the claimed order; each has the three orders the claim
\* singles out
OrderedRuns == {q \in RunsInOrder : OrderInParticular(q)}

\* C25: the steps of an iteration occur in the fixed order navigation,
\* 'Add user', option selection, form typing, first Next, group, second Next,
\* final confirmation, scraping, close, none of them twice and none but
\* those of the second scraping phase left out; so the option is attempted
\* before a field is typed, no extractor runs before the confirmation
\* attempt, and the dialog is closed only after the last extractor.
C25_FixedStepOrder ==
    steps \in OrderedRuns

\* an iteration that went through every step, the second phase included
C25_Witness ==
    /\ pc = "handle"
    /\ steps = ClaimedOrder

\* the keywords of the claim in their priority order, and the text each
\* stands for
ClaimedKeywords == <<"username", "first", "last", "display", "@example.com", "email">>

ClaimedText(k) ==
    CASE k = 1 -> email
      [] k = 2 -> given_name
      [] k = 3 -> family_name
      [] k = 4 -> given_name \o " " \o family_name
      [] OTHER -> email

\* the keywords the lower-cased placeholder of an input contains
KeywordsIn(inp) ==
    {k \in DOMAIN ClaimedKeywords :
        inp.placeholder # None /\ Contains(Lower(inp.placeholder), ClaimedKeywords[k])}

\* the visible text/email inputs of the page that are no search box
FormFields ==
    {k \in DOMAIN result :
        /\ result[k].displayed
        /\ result[k].type \in {"text", "email"}
        /\ result[k].placeholder # "Search"
        /\ (result[k].id = None \/ ~ Contains(Lower(result[k].id), "search"))}

TypedInto(k) == {j \in DOMAIN steps : steps[j].inp = k}

\* C26: when the form filling is over, every visible non-search text/email
\* input whose lower-cased placeholder contains a keyword was typed into
\* once, with the text of the first keyword in the order username, first,
\* last, display, then @example.com or email; every other input is
\* untouched; filled_count counts the inputs whose typing did not raise; and
\* an input whose typing raised did not stop the later ones.
C26_FormFilling ==
    pc = "form_done" =>
        /\ \A k \in DOMAIN result :
              IF k \in FormFields /\ KeywordsIn(result[k]) # {}
              THEN /\ Cardinality(TypedInto(k)) = 1
                   /\ \A j \in TypedInto(k) :
                         steps[j].text =
                           ClaimedText(CHOOSE a \in KeywordsIn(result[k]) :
                                          \A b \in KeywordsIn(result[k]) : a <= b)
              ELSE TypedInto(k) = {}
        /\ clicks = Cardinality({j \in DOMAIN steps : steps[j].ok})
        /\ \A j, k \in DOMAIN steps : j < k => steps[j].inp < steps[k].inp

\* the typing into the first input raised, the second was filled and counted
C26_Witness ==
    /\ pc = "form_done"
    /\ Len(steps) = 2
    /\ ~ steps[1].ok
    /\ steps[2].ok
    /\ clicks = 1
    /\ result[1].placeholder = "First USERNAME"
    /\ steps[1].text = email

\* the filter of the claim on a candidate
ClaimedAcceptable(c) ==
    /\ Len(c) \in 8 .. 80
    /\ " " \notin CharsOf(c)
    /\ c # "on"
    /\ ~ MatchesEmail(c)
    /\ ~ Contains(c, "awsapps.com")
    /\ ~ Contains(c, "User password was reset")
    /\ ~ StartsWith(c, "http")

\* positions of the script's list whose candidate passes the claimed filter
Passing ==
    {k \in DOMAIN scraped :
        Contains(scraped[k], ":") /\ ClaimedAcceptable(pwd_candidate(scraped[k]))}

\* C27: the label extractor returns the candidate of the first string, in
\* script order, whose candidate passes the filter (8..80 long, no space,
\* not 'on', no email, no 'awsapps.com', no 'User password was reset', no
\* leading 'http'); strings that fail are skipped, and when none passes the
\* extractor yields no credential.
C27_FirstPassingCandidate ==
    pc = "label_done" =>
        IF Passing = {}
        THEN otp_password = None
        ELSE otp_password =
               pwd_candidate(scraped[CHOOSE k \in Passing : \A j \in Passing : k <= j])

\* the first string was refused, the second gave the credential, cut at its
\* line break
C27_Witness ==
    /\ pc = "label_done"
    /\ scraped = <<"sibling: user@gmail.com", "parent-input[0]: Lbl1!abcd\r\nHide password">>
    /\ otp_password = "Lbl1!abcd"

\* the substrings of the claim that name a region or a URL
ClaimedSubstrings == regionPatterns \cup {"Central", "awsapps.com", "portal.", "http"}

\* the set of strings the claim describes
ClaimedValid(text) ==
    /\ Len(text) \in 8 .. 60
    /\ "@" \notin CharsOf(text)
    /\ \A c \in CharsOf(text) : c \notin Whitespace
    /\ \A r \in ClaimedSubstrings : ~ Contains(text, r)
    /\ \E c \in CharsOf(text) : c \in UpperLetters
    /\ \E c \in CharsOf(text) : c \in LowerLetters
    /\ \E c \in CharsOf(text) : c \in Digits
    /\ \E c \in CharsOf(text) : c \in SpecialChars

\* C28: the three copies of isValidPassword accept the same strings: on any
\* text the verdicts of the copies that ran agree, and each is TRUE exactly
\* for a text 8 to 60 long with no '@', no whitespace, no region or URL
\* substring ('Central' included), and an upper-case letter, a lower-case
\* letter, a digit and a special character.
C28_CopiesAgree ==
    pc = "valid" =>
        /\ \A j, k \in DOMAIN scraped : scraped[j].got = scraped[k].got
        /\ \A k \in DOMAIN scraped : scraped[k].got = ClaimedValid(otp_password)

\* the three copies have refused a text that only the test of 'Central' refuses
C28_Witness ==
    /\ pc = "valid"
    /\ otp_password = "Central1!a"
    /\ Len(scraped) = 3
    /\ \A k \in DOMAIN scraped : scraped[k].got = FALSE

============================================================================
